---- MODULE Spec2Model ----
(***************************************************************************)
(* Model of butler's wharf operations (wharf_ops.go): diff, apply, sign    *)
(* and verify.  The four handlers doDiff, doApply, doSign and doVerify are *)
(* modelled step by step from the source.  The delta engine they call      *)
(* (block hasher, signature codec, diff scan, patch application, hash      *)
(* comparison) lives in the wharf library and is modelled from its         *)
(* specification.                                                          *)
(***************************************************************************)
EXTENDS Integers, Sequences, FiniteSets, TLC

\* ------------------------------------------------------------------------
\* Bounds of the model
\* ------------------------------------------------------------------------

\* Byte values are 0..MaxByte.
MaxByte == 1

\* Longest file, in bytes.
MaxFileLen == 3

\* Most files in a tree.
MaxFiles == 2

\* Most bytes in a tree, all files together.
MaxTreeBytes == 4

\* Most bytes in a tree handed to apply or sign.
MaxSmallTreeBytes == 2

\* Bytes per block (scaled down from 64KiB).
BlockSize == 2

\* Modulus of the two halves of the weak hash (scaled down from 2^16).
WeakMod == 2

\* Longest path string, in characters.
MaxPathLen == 2

\* ------------------------------------------------------------------------
\* Trees and containers
\* ------------------------------------------------------------------------

Min(a, b) == IF a < b THEN a ELSE b

Byte == 0..MaxByte

SeqsUpTo(S, n) == UNION {[1..k -> S] : k \in 0..n}

Files == SeqsUpTo(Byte, MaxFileLen)

RECURSIVE SumSizes(_)
SumSizes(sizes) ==
  IF sizes = <<>> THEN 0 ELSE Head(sizes) + SumSizes(Tail(sizes))

\* A container: the files of a tree in walk order, each with its size.
Container(tree) == [i \in 1..Len(tree) |-> Len(tree[i])]

ContainerSize(container) == SumSizes(container)

\* The trees of at most n files and at most budget bytes in all.
RECURSIVE TreesWithin(_, _)
TreesWithin(n, budget) ==
  IF n = 0 THEN {<<>>}
  ELSE {<<>>} \cup
       UNION {{<<f>> \o t : t \in TreesWithin(n - 1, budget - Len(f))} :
                f \in SeqsUpTo(Byte, Min(MaxFileLen, budget))}

\* A tree: the bytes of its files, in walk order.
Trees == TreesWithin(MaxFiles, MaxTreeBytes)

SmallTrees == TreesWithin(MaxFiles, MaxSmallTreeBytes)

EmptyContainer == <<>>

\* ------------------------------------------------------------------------
\* Block hasher
\* ------------------------------------------------------------------------

NumBlocks(size) == (size + BlockSize - 1) \div BlockSize

\* The k-th block of a file (1-based); the last block may be short.
BlockAt(f, k) == SubSeq(f, (k - 1) * BlockSize + 1, Min(k * BlockSize, Len(f)))

RECURSIVE WeakA(_)
WeakA(b) == IF b = <<>> THEN 0 ELSE (Head(b) + WeakA(Tail(b))) % WeakMod

RECURSIVE WeakB(_)
WeakB(b) == IF b = <<>> THEN 0 ELSE (Len(b) * Head(b) + WeakB(Tail(b))) % WeakMod

\* Rolling checksum: sum of the bytes, and sum of the bytes weighted by
\* their distance to the end of the window.
WeakHash(b) == WeakA(b) + WeakMod * WeakB(b)

RECURSIVE StrongDigits(_, _)
StrongDigits(b, acc) ==
  IF b = <<>> THEN acc ELSE StrongDigits(Tail(b), acc * (MaxByte + 2) + Head(b) + 1)

\* Collision-resistant digest, idealised: distinct blocks get distinct digests.
StrongHash(b) == StrongDigits(b, 0)

HashOfBlock(i, k, b) ==
  [fileIndex |-> i, blockIndex |-> k, weak |-> WeakHash(b), strong |-> StrongHash(b)]

FileHashes(i, f) == [k \in 1..NumBlocks(Len(f)) |-> HashOfBlock(i, k, BlockAt(f, k))]

RECURSIVE HashesFrom(_, _, _)
HashesFrom(container, tree, i) ==
  IF i > Len(container) THEN <<>>
  ELSE FileHashes(i, tree[i]) \o HashesFrom(container, tree, i + 1)

\* Whether every file the container lists can be read in the tree.
Readable(container, tree) == Len(container) <= Len(tree)

\* Block hashes of the files the container lists, read from the tree, in
\* container order and block order within a file.
ComputeSignature(container, tree) == HashesFrom(container, tree, 1)

\* ------------------------------------------------------------------------
\* Compression of literal payloads (a run-length code stands for the codec)
\* ------------------------------------------------------------------------

RECURSIVE Compress(_)
Compress(bytes) ==
  IF bytes = <<>> THEN <<>>
  ELSE LET rest == Compress(Tail(bytes))
       IN IF rest # <<>> /\ rest[1][1] = Head(bytes)
          THEN <<(<<Head(bytes), rest[1][2] + 1>>)>> \o Tail(rest)
          ELSE <<(<<Head(bytes), 1>>)>> \o rest

RECURSIVE Decompress(_)
Decompress(runs) ==
  IF runs = <<>> THEN <<>>
  ELSE [j \in 1..runs[1][2] |-> runs[1][1]] \o Decompress(Tail(runs))

\* ------------------------------------------------------------------------
\* Diff engine
\* ------------------------------------------------------------------------

BlockCopy(i, off, n) ==
  [type |-> "BlockCopy", fileIndex |-> i, offset |-> off, length |-> n, payload |-> <<>>]

Literal(bytes) ==
  [type |-> "Literal", fileIndex |-> 0, offset |-> 0, length |-> Len(bytes),
   payload |-> Compress(bytes)]

\* The window of at most BlockSize bytes that starts at position p.
Window(f, p) == SubSeq(f, p, Min(p + BlockSize - 1, Len(f)))

\* Lookup structure: the positions in the target signature whose weak hash is w,
\* in signature order.
Candidates(sig, w) == SelectSeq([j \in 1..Len(sig) |-> j], LAMBDA j : sig[j].weak = w)

\* A weak-hash hit is accepted without looking at the strong hash.
ConfirmedWeakOnly(sig, cands, win) == cands

\* The candidates whose strong hash equals the strong hash of the window.
Confirmed(sig, cands, win) ==
  SelectSeq(cands, LAMBDA j : sig[j].strong = StrongHash(win))

\* The first confirmed candidate for the window, 0 when there is none.
FindMatch(sig, win) ==
  LET hits == Confirmed(sig, Candidates(sig, WeakHash(win)), win)
  IN IF hits = <<>> THEN 0 ELSE hits[1]

FlushLiteral(lit) == IF lit = <<>> THEN <<>> ELSE <<Literal(lit)>>

\* The scan of one source file from position p with pending literal run lit.
RECURSIVE Scan(_, _, _, _)
Scan(sig, f, p, lit) ==
  IF p > Len(f) THEN FlushLiteral(lit)
  ELSE LET win == Window(f, p)
           m   == FindMatch(sig, win)
       IN IF m # 0
          THEN FlushLiteral(lit)
               \o <<BlockCopy(sig[m].fileIndex, (sig[m].blockIndex - 1) * BlockSize, Len(win))>>
               \o Scan(sig, f, p + Len(win), <<>>)
          ELSE Scan(sig, f, p + 1, Append(lit, f[p]))

RECURSIVE CountBytes(_, _)
CountBytes(ops, type) ==
  IF ops = <<>> THEN 0
  ELSE (IF Head(ops).type = type THEN Head(ops).length ELSE 0) + CountBytes(Tail(ops), type)

RECURSIVE CountAll(_, _)
CountAll(opLists, type) ==
  IF opLists = <<>> THEN 0
  ELSE CountBytes(Head(opLists), type) + CountAll(Tail(opLists), type)

\* The diff of a DiffContext: the patch (source container and one operation
\* list per source file), the signature of the source, and the stats.
WritePatch(dctx) ==
  LET opLists == [i \in 1..Len(dctx.SourceContainer) |->
                    Scan(dctx.TargetSignature, dctx.SourceTree[i], 1, <<>>)]
  IN [patch       |-> [container |-> dctx.SourceContainer, ops |-> opLists],
      signature   |-> [container |-> dctx.SourceContainer,
                       hashes |-> ComputeSignature(dctx.SourceContainer, dctx.SourceTree)],
      ReusedBytes |-> CountAll(opLists, "BlockCopy"),
      FreshBytes  |-> CountAll(opLists, "Literal")]

\* ------------------------------------------------------------------------
\* Apply engine
\* ------------------------------------------------------------------------

\* Whether the byte range of a BlockCopy exists in the target tree.
CopyInRange(op, target) ==
  /\ op.fileIndex \in 1..Len(target)
  /\ op.offset + op.length <= Len(target[op.fileIndex])

ResolveOp(op, target) ==
  IF op.type = "BlockCopy"
  THEN SubSeq(target[op.fileIndex], op.offset + 1, op.offset + op.length)
  ELSE Decompress(op.payload)

RECURSIVE ResolveOps(_, _)
ResolveOps(ops, target) ==
  IF ops = <<>> THEN <<>>
  ELSE ResolveOp(Head(ops), target) \o ResolveOps(Tail(ops), target)

OpsOk(ops, target) ==
  \A k \in 1..Len(ops) : ops[k].type = "BlockCopy" => CopyInRange(ops[k], target)

\* Whether the patch applies to the target: every copied range exists and every
\* file comes out at its declared size.
PatchApplies(patch, target) ==
  \A i \in 1..Len(patch.ops) :
    /\ OpsOk(patch.ops[i], target)
    /\ Len(ResolveOps(patch.ops[i], target)) = patch.container[i]

\* The output tree of a patch applied to a target tree kept apart from it.
ApplyToFresh(patch, target) ==
  [i \in 1..Len(patch.ops) |-> ResolveOps(patch.ops[i], target)]

\* Applying file by file onto the target itself: file i is resolved against the
\* tree as files 1..i-1 left it, then written.  The result is the final tree,
\* or no tree (ok FALSE) when a copied range no longer exists.
RECURSIVE ApplyFileByFile(_, _, _)
ApplyFileByFile(patch, tree, i) ==
  IF i > Len(patch.ops) THEN [ok |-> TRUE, tree |-> SubSeq(tree, 1, Len(patch.ops))]
  ELSE IF ~OpsOk(patch.ops[i], tree) THEN [ok |-> FALSE, tree |-> tree]
  ELSE LET bytes == ResolveOps(patch.ops[i], tree)
           grown == IF i <= Len(tree) THEN [tree EXCEPT ![i] = bytes] ELSE Append(tree, bytes)
       IN ApplyFileByFile(patch, grown, i + 1)

\* ------------------------------------------------------------------------
\* Verify engine
\* ------------------------------------------------------------------------

\* The positions at which the recomputed hashes differ from the reference;
\* a position only one of the two sequences has is a mismatch too.
Mismatches(refHashes, hashes) ==
  {k \in 1..(IF Len(refHashes) > Len(hashes) THEN Len(refHashes) ELSE Len(hashes)) :
     \/ k > Len(refHashes)
     \/ k > Len(hashes)
     \/ refHashes[k].weak # hashes[k].weak
     \/ refHashes[k].strong # hashes[k].strong}

CompareHashes(refHashes, hashes) == Mismatches(refHashes, hashes) = {}

\* ------------------------------------------------------------------------
\* Signature codec
\* ------------------------------------------------------------------------

MagicRecord == [kind |-> "magic", body |-> <<>>]

HeaderRecord == [kind |-> "header", body |-> <<>>]

ContainerRecord(container) == [kind |-> "container", body |-> container]

\* A block hash on the wire carries the two hashes only.
HashRecord(hash) == [kind |-> "hash", body |-> <<hash.weak, hash.strong>>]

EncodeSignature(container, hashes) ==
  <<MagicRecord, HeaderRecord, ContainerRecord(container)>>
    \o [k \in 1..Len(hashes) |-> HashRecord(hashes[k])]

\* Whether a stream decodes: magic, header, container, then block hashes only.
WellFormed(stream) ==
  /\ Len(stream) >= 3
  /\ stream[1].kind = "magic"
  /\ stream[2].kind = "header"
  /\ stream[3].kind = "container"
  /\ \A k \in 4..Len(stream) : stream[k].kind = "hash"

\* The block hashes read back: file and block index are recovered from the
\* sizes in the container.
RECURSIVE DecodeHashes(_, _, _, _)
DecodeHashes(recs, container, i, k) ==
  IF recs = <<>> \/ i > Len(container) THEN <<>>
  ELSE IF k > NumBlocks(container[i]) THEN DecodeHashes(recs, container, i + 1, 1)
  ELSE <<[fileIndex |-> i, blockIndex |-> k,
          weak |-> Head(recs).body[1], strong |-> Head(recs).body[2]]>>
       \o DecodeHashes(Tail(recs), container, i, k + 1)

ReadSignature(stream) ==
  [container |-> stream[3].body,
   hashes    |-> DecodeHashes(SubSeq(stream, 4, Len(stream)), stream[3].body, 1, 1)]

\* ------------------------------------------------------------------------
\* Path cleaning (path.Clean), over strings of the characters "/", "." and "a"
\* ------------------------------------------------------------------------

PathChars == {"/", ".", "a"}

Paths == SeqsUpTo(PathChars, MaxPathLen)

\* Drop the last element written, back to and including its slash: w counts
\* the characters kept so far and out[w + 1] is the one dropped last.
RECURSIVE BackUp(_, _, _)
BackUp(out, w, dotdot) ==
  IF w > dotdot /\ out[w + 1] # "/"
  THEN BackUp(out, w - 1, dotdot)
  ELSE SubSeq(out, 1, w)

\* Copy the element that starts at r.
RECURSIVE CopyElem(_, _, _)
CopyElem(path, r, out) ==
  IF r <= Len(path) /\ path[r] # "/"
  THEN CopyElem(path, r + 1, Append(out, path[r]))
  ELSE <<r, out>>

RECURSIVE CleanLoop(_, _, _, _, _)
CleanLoop(path, rooted, r, out, dotdot) ==
  LET n == Len(path)
  IN IF r > n THEN out
     ELSE IF path[r] = "/" THEN CleanLoop(path, rooted, r + 1, out, dotdot)
     ELSE IF path[r] = "." /\ (r = n \/ path[r + 1] = "/")
          THEN CleanLoop(path, rooted, r + 1, out, dotdot)
     ELSE IF path[r] = "." /\ path[r + 1] = "." /\ (r + 1 = n \/ path[r + 2] = "/")
          THEN IF Len(out) > dotdot
               THEN CleanLoop(path, rooted, r + 2,
                              BackUp(out, Len(out) - 1, dotdot), dotdot)
               ELSE IF ~rooted
               THEN LET o2 == (IF Len(out) > 0 THEN Append(out, "/") ELSE out) \o <<".", ".">>
                    IN CleanLoop(path, rooted, r + 2, o2, Len(o2))
               ELSE CleanLoop(path, rooted, r + 2, out, dotdot)
     ELSE LET o1 == IF (rooted /\ Len(out) # 1) \/ (~rooted /\ Len(out) # 0)
                    THEN Append(out, "/") ELSE out
              ce == CopyElem(path, r, o1)
          IN CleanLoop(path, rooted, ce[1], ce[2], dotdot)

Clean(path) ==
  IF path = <<>> THEN <<".">>
  ELSE LET rooted == path[1] = "/"
           out == IF rooted THEN CleanLoop(path, TRUE, 2, <<"/">>, 1)
                  ELSE CleanLoop(path, FALSE, 1, <<>>, 0)
       IN IF out = <<>> THEN <<".">> ELSE out

\* ------------------------------------------------------------------------
\* State
\* ------------------------------------------------------------------------

VARIABLES
  pc,               \* the step the running command is at
  ret,              \* "running", "nil" (success), "err" (error returned), "die" (comm.Dief)
  targetKind,       \* diff: what target names: "null", "dir" or "sig" (a signature file)
  tgt,              \* bytes of the tree at (or signed by) target
  sourceNull,       \* diff: whether source is "/dev/null"
  src,              \* diff: bytes of the tree at source
  verifyFlag,       \* diff: *diffArgs.verify
  targetPath,       \* apply: the target argument
  outputPath,       \* apply: the output argument
  inplace,          \* apply: the inplace argument
  target,           \* local of doApply: the cleaned target path
  output,           \* local of doApply: the cleaned output path
  targetContainer,  \* local of doDiff
  targetSignature,  \* local of doDiff
  sourceContainer,  \* local of doDiff
  patchFile,        \* the patch file on disk
  sigFile,          \* the signature file on disk
  stats,            \* dctx.ReusedBytes and dctx.FreshBytes
  out,              \* bytes of the output tree on disk
  hashes,           \* doSign: block hashes still to be yielded; doVerify: recomputed hashes
  wire,             \* doSign: the records handed to the wire so far, in order
  closed,           \* doSign: whether the compressed wire was closed
  steps,            \* number of I/O steps performed so far
  failedAt,         \* the number of the first I/O step that failed, 0 when none did
  deferred,         \* the calls deferred so far, in the order of their defer statements
  cleanup           \* the deferred calls that ran at the return, each with its outcome

vars == <<pc, ret, targetKind, tgt, sourceNull, src, verifyFlag, targetPath, outputPath,
          inplace, targetContainer, targetSignature, sourceContainer, patchFile, sigFile,
          stats, out, hashes, closed, steps, failedAt, target, output, wire,
          deferred, cleanup>>

argVars == <<targetKind, tgt, sourceNull, src, verifyFlag, targetPath, outputPath, inplace>>

EmptyPatch == [container |-> <<>>, ops |-> <<>>]

NoStats == [ReusedBytes |-> 0, FreshBytes |-> 0]

\* An I/O step: it is counted, and its failure is remembered.
IOStep(ok) ==
  /\ steps' = steps + 1
  /\ failedAt' = IF ~ok /\ failedAt = 0 THEN steps + 1 ELSE failedAt

\* The step succeeded and the command goes on at next.
Goto(next) == pc' = next /\ ret' = ret /\ UNCHANGED <<deferred, cleanup>>

\* The step succeeded, a call was deferred, and the command goes on at next.
GotoDefer(next, call) ==
  /\ pc' = next /\ ret' = ret
  /\ deferred' = Append(deferred, call)
  /\ UNCHANGED cleanup

\* At a return the deferred calls run, last deferred first; each may fail and
\* its error is dropped.
RunDeferred ==
  /\ \E oks \in [1..Len(deferred) -> BOOLEAN] :
       cleanup' = [k \in 1..Len(deferred) |->
                     [call |-> deferred[Len(deferred) - k + 1], ok |-> oks[k]]]
  /\ deferred' = <<>>

\* Whether the call ran at the return and succeeded.
Cleaned(log, call) == \E k \in 1..Len(log) : log[k].call = call /\ log[k].ok

\* The command returns err from the step it is at.
ReturnErr == pc' = pc /\ ret' = "err" /\ RunDeferred

\* The command returns nil.
ReturnNil(done) == pc' = done /\ ret' = "nil" /\ RunDeferred

\* must() or comm.Dief ends the process at the step it is at; no deferred call runs.
Die == pc' = pc /\ ret' = "die" /\ UNCHANGED <<deferred, cleanup>>

Running == ret = "running"

\* ------------------------------------------------------------------------
\* doDiff
\* ------------------------------------------------------------------------

diffLocals == <<targetContainer, targetSignature, sourceContainer>>

diffDisk == <<patchFile, sigFile, stats, out>>

idle == <<hashes, closed, target, output, wire>>

\* target == "/dev/null": an empty container and no signature.
DiffTargetNull ==
  /\ Running /\ pc = "diff.target" /\ targetKind = "null"
  /\ targetContainer' = EmptyContainer
  /\ targetSignature' = <<>>
  /\ Goto("diff.source")
  /\ UNCHANGED <<argVars, sourceContainer, diffDisk, idle, steps, failedAt>>

\* os.Lstat(target)
DiffLstat ==
  /\ Running /\ pc = "diff.target" /\ targetKind # "null"
  /\ \E ok \in BOOLEAN :
       /\ IOStep(ok)
       /\ IF ok THEN Goto(IF targetKind = "dir" THEN "diff.walkTarget" ELSE "diff.openSig")
                ELSE ReturnErr
  /\ UNCHANGED <<argVars, diffLocals, diffDisk, idle>>

\* tlc.Walk(target, filterPaths)
DiffWalkTarget ==
  /\ Running /\ pc = "diff.walkTarget"
  /\ \E ok \in BOOLEAN :
       /\ IOStep(ok)
       /\ IF ok THEN targetContainer' = Container(tgt) /\ Goto("diff.hashTarget")
                ELSE UNCHANGED targetContainer /\ ReturnErr
  /\ UNCHANGED <<argVars, targetSignature, sourceContainer, diffDisk, idle>>

\* pwr.ComputeSignature(targetContainer, target, ...)
DiffHashTarget ==
  /\ Running /\ pc = "diff.hashTarget"
  /\ \E ok \in BOOLEAN :
       /\ IOStep(ok)
       /\ IF ok THEN /\ targetSignature' = ComputeSignature(targetContainer, tgt)
                     /\ Goto("diff.source")
                ELSE UNCHANGED targetSignature /\ ReturnErr
  /\ UNCHANGED <<argVars, targetContainer, sourceContainer, diffDisk, idle>>

\* os.Open(target)
DiffOpenSignature ==
  /\ Running /\ pc = "diff.openSig"
  /\ \E ok \in BOOLEAN :
       /\ IOStep(ok)
       /\ IF ok THEN Goto("diff.readSig") ELSE ReturnErr
  /\ UNCHANGED <<argVars, diffLocals, diffDisk, idle>>

\* The signature file that target names holds the signature of the tree tgt.
TargetSignatureFile == EncodeSignature(Container(tgt), ComputeSignature(Container(tgt), tgt))

\* pwr.ReadSignature(signatureReader)
DiffReadSignature ==
  /\ Running /\ pc = "diff.readSig"
  /\ \E ok \in BOOLEAN :
       /\ IOStep(ok)
       /\ IF ok /\ WellFormed(TargetSignatureFile)
          THEN /\ targetContainer' = ReadSignature(TargetSignatureFile).container
               /\ targetSignature' = ReadSignature(TargetSignatureFile).hashes
               /\ Goto("diff.closeSig")
          ELSE UNCHANGED <<targetContainer, targetSignature>> /\ ReturnErr
  /\ UNCHANGED <<argVars, sourceContainer, diffDisk, idle>>

\* signatureReader.Close()
DiffCloseSignature ==
  /\ Running /\ pc = "diff.closeSig"
  /\ \E ok \in BOOLEAN :
       /\ IOStep(ok)
       /\ IF ok THEN Goto("diff.source") ELSE ReturnErr
  /\ UNCHANGED <<argVars, diffLocals, diffDisk, idle>>

\* The null test made on target where source was meant.
SourceIsNullTestsTarget == targetKind = "null"

\* source == "/dev/null"
SourceIsNull == sourceNull

\* An empty container for the null source.
DiffSourceNull ==
  /\ Running /\ pc = "diff.source" /\ SourceIsNull
  /\ sourceContainer' = EmptyContainer
  /\ Goto("diff.createPatch")
  /\ UNCHANGED <<argVars, targetContainer, targetSignature, diffDisk, idle, steps, failedAt>>

\* The patch file created ahead of the walk of the source.
DiffWalkSourceAfterCreate ==
  /\ Running /\ pc = "diff.source" /\ ~SourceIsNull
  /\ patchFile' = [state |-> "empty", patch |-> EmptyPatch]
  /\ \E ok \in BOOLEAN :
       /\ IOStep(ok)
       /\ IF ok THEN sourceContainer' = Container(src) /\ Goto("diff.createPatch")
                ELSE UNCHANGED sourceContainer /\ ReturnErr
  /\ UNCHANGED <<argVars, targetContainer, targetSignature, sigFile, stats, out, idle>>

\* tlc.Walk(source, filterPaths)
DiffWalkSource ==
  /\ Running /\ pc = "diff.source" /\ ~SourceIsNull
  /\ \E ok \in BOOLEAN :
       /\ IOStep(ok)
       /\ IF ok THEN sourceContainer' = Container(src) /\ Goto("diff.createPatch")
                ELSE UNCHANGED sourceContainer /\ ReturnErr
  /\ UNCHANGED <<argVars, targetContainer, targetSignature, diffDisk, idle>>

\* os.Create(patch): the file exists and is empty afterwards; its Close is deferred.
DiffCreatePatch ==
  /\ Running /\ pc = "diff.createPatch"
  /\ \E ok \in BOOLEAN :
       /\ IOStep(ok)
       /\ IF ok THEN /\ patchFile' = [state |-> "empty", patch |-> EmptyPatch]
                     /\ GotoDefer("diff.createSig", "patchWriter.Close")
                ELSE UNCHANGED patchFile /\ ReturnErr
  /\ UNCHANGED <<argVars, diffLocals, sigFile, stats, out, idle>>

\* os.Create(patch + ".sig"); its Close is deferred.
DiffCreateSignature ==
  /\ Running /\ pc = "diff.createSig"
  /\ \E ok \in BOOLEAN :
       /\ IOStep(ok)
       /\ IF ok THEN /\ sigFile' = [state |-> "empty", stream |-> <<>>]
                     /\ GotoDefer("diff.writePatch", "signatureWriter.Close")
                ELSE UNCHANGED sigFile /\ ReturnErr
  /\ UNCHANGED <<argVars, diffLocals, patchFile, stats, out, idle>>

\* The DiffContext literal with the SourceContainer field left out.
DiffContextNoSource(tc, ts, sc, sourceTree) ==
  [SourceContainer |-> EmptyContainer, SourceTree |-> sourceTree,
   TargetContainer |-> tc, TargetSignature |-> ts]

\* dctx := &pwr.DiffContext{...}; SourcePath gives access to the source bytes.
DiffContext(tc, ts, sc, sourceTree) ==
  [SourceContainer |-> sc, SourceTree |-> sourceTree,
   TargetContainer |-> tc, TargetSignature |-> ts]

\* dctx.WritePatch(patchCounter, signatureCounter)
DiffWritePatch ==
  /\ Running /\ pc = "diff.writePatch"
  /\ \E ok \in BOOLEAN :
       /\ IOStep(ok)
       /\ IF ok
          THEN LET r == WritePatch(DiffContext(targetContainer, targetSignature,
                                               sourceContainer, src))
               IN /\ patchFile' = [state |-> "written", patch |-> r.patch]
                  /\ sigFile' = [state |-> "written",
                                 stream |-> EncodeSignature(r.signature.container,
                                                            r.signature.hashes)]
                  /\ stats' = [ReusedBytes |-> r.ReusedBytes, FreshBytes |-> r.FreshBytes]
                  /\ Goto(IF verifyFlag THEN "diff.tempDir" ELSE "diff.report")
          ELSE UNCHANGED <<patchFile, sigFile, stats>> /\ ReturnErr
  /\ UNCHANGED <<argVars, diffLocals, out, idle>>

\* ioutil.TempDir("", "pwr"); os.RemoveAll(tmpDir) is deferred.
DiffTempDir ==
  /\ Running /\ pc = "diff.tempDir"
  /\ \E ok \in BOOLEAN :
       /\ IOStep(ok)
       /\ IF ok THEN out' = <<>> /\ GotoDefer("diff.apply", "os.RemoveAll")
                ELSE UNCHANGED out /\ ReturnErr
  /\ UNCHANGED <<argVars, diffLocals, patchFile, sigFile, stats, idle>>

\* The tree the apply engine reads copied blocks from: a target that is no
\* directory has no files to read.
TargetTree == IF targetKind = "dir" THEN tgt ELSE <<>>

\* apply(patch, target, tmpDir, false): must() ends the process on any error.
DiffApply ==
  /\ Running /\ pc = "diff.apply"
  /\ \E ok \in BOOLEAN :
       /\ IOStep(ok)
       /\ IF ok /\ PatchApplies(patchFile.patch, TargetTree)
          THEN out' = ApplyToFresh(patchFile.patch, TargetTree) /\ Goto("diff.verify")
          ELSE UNCHANGED out /\ Die
  /\ UNCHANGED <<argVars, diffLocals, patchFile, sigFile, stats, idle>>

\* verify(signaturePath, tmpDir): must() or comm.Dief ends the process on an
\* error or a mismatch.
DiffVerify ==
  /\ Running /\ pc = "diff.verify"
  /\ \E ok \in BOOLEAN :
       /\ IOStep(ok)
       /\ IF /\ ok
             /\ WellFormed(sigFile.stream)
             /\ Readable(ReadSignature(sigFile.stream).container, out)
             /\ CompareHashes(ReadSignature(sigFile.stream).hashes,
                              ComputeSignature(ReadSignature(sigFile.stream).container, out))
          THEN Goto("diff.report")
          ELSE Die
  /\ UNCHANGED <<argVars, diffLocals, diffDisk, idle>>

\* The closing report, and return nil: the deferred calls run, and a removal
\* that succeeds leaves nothing of the tree in tmpDir.
DiffReturn ==
  /\ Running /\ pc = "diff.report"
  /\ ReturnNil("diff.done")
  /\ out' = IF Cleaned(cleanup', "os.RemoveAll") THEN <<>> ELSE out
  /\ UNCHANGED <<argVars, diffLocals, patchFile, sigFile, stats, idle, steps, failedAt>>

InitDiff ==
  /\ pc = "diff.target" /\ ret = "running"
  /\ targetKind \in {"null", "dir", "sig"}
  /\ tgt \in (IF targetKind = "null" THEN {<<>>} ELSE Trees)
  /\ sourceNull \in BOOLEAN
  /\ src \in (IF sourceNull THEN {<<>>} ELSE Trees)
  /\ verifyFlag \in BOOLEAN
  /\ targetPath = <<>> /\ outputPath = <<>> /\ inplace = FALSE
  /\ targetContainer = <<>> /\ targetSignature = <<>> /\ sourceContainer = <<>>
  /\ patchFile \in {[state |-> st, patch |-> EmptyPatch] : st \in {"absent", "stale"}}
  /\ sigFile = [state |-> patchFile.state, stream |-> <<>>]
  /\ stats = NoStats
  /\ out = <<>>
  /\ hashes = <<>> /\ closed = FALSE
  /\ target = <<>> /\ output = <<>> /\ wire = <<>>
  /\ steps = 0 /\ failedAt = 0
  /\ deferred = <<>> /\ cleanup = <<>>

NextDiff ==
  \/ DiffTargetNull \/ DiffLstat \/ DiffWalkTarget \/ DiffHashTarget
  \/ DiffOpenSignature \/ DiffReadSignature \/ DiffCloseSignature
  \/ DiffSourceNull \/ DiffWalkSource
  \/ DiffCreatePatch \/ DiffCreateSignature \/ DiffWritePatch
  \/ DiffTempDir \/ DiffApply \/ DiffVerify \/ DiffReturn

SpecDiff == InitDiff /\ [][NextDiff]_vars

\* ------------------------------------------------------------------------
\* doApply
\* ------------------------------------------------------------------------

applyIdle == <<targetKind, sourceNull, src, verifyFlag, targetPath, outputPath, inplace,
               targetContainer, targetSignature, sourceContainer, patchFile, sigFile,
               stats, hashes, closed, wire>>

\* if output == "" { output = target }
DefaultOutput(t, o) == IF o = <<>> THEN t ELSE o

\* The two paths compared as given, without cleaning.
SamePathRaw(t, o) == DefaultOutput(t, o) = t

\* output == target, after path.Clean of both.
SamePath(t, o) == Clean(DefaultOutput(t, o)) = Clean(t)

\* The default, the cleaning and the refusal of an unauthorized in-place patch.
ApplyCheck ==
  /\ Running /\ pc = "apply.check"
  /\ target' = Clean(targetPath)
  /\ output' = Clean(DefaultOutput(targetPath, outputPath))
  /\ IF SamePath(targetPath, outputPath) /\ ~inplace THEN Die ELSE Goto("apply.open")
  /\ UNCHANGED <<applyIdle, tgt, out, steps, failedAt>>

\* os.Open(patch)
ApplyOpen ==
  /\ Running /\ pc = "apply.open"
  /\ \E ok \in BOOLEAN :
       /\ IOStep(ok)
       /\ IF ok THEN Goto("apply.patch") ELSE ReturnErr
  /\ UNCHANGED <<applyIdle, tgt, out, target, output>>

\* What an in-place application can come to: every copy resolved from the
\* pristine target, or each file resolved against the tree as the files before
\* it left it.
InPlaceResults(patch, tree) ==
  {[ok |-> TRUE, tree |-> ApplyToFresh(patch, tree)], ApplyFileByFile(patch, tree, 1)}

\* What applying a patch can come to, as the tree written at OutputPath.  An
\* output apart from the target is written from the untouched target, in either
\* mode.  An output that is the target is written over it: in the ways of
\* InPlaceResults when InPlace is set, file by file when it is not.
ApplyPatchResults(actx, patch, tree) ==
  IF actx.OutputPath # actx.TargetPath
  THEN {[ok |-> TRUE, tree |-> ApplyToFresh(patch, tree)]}
  ELSE IF actx.InPlace THEN InPlaceResults(patch, tree)
  ELSE {ApplyFileByFile(patch, tree, 1)}

\* actx := &pwr.ApplyContext{TargetPath: target, OutputPath: output, InPlace: inplace, ...}
ApplyContext(t, o, ip) == [TargetPath |-> t, OutputPath |-> o, InPlace |-> ip]

\* actx.ApplyPatch(patchReader): the tree at OutputPath is written, which is the
\* target tree when the two paths are the same.
ApplyPatch ==
  /\ Running /\ pc = "apply.patch"
  /\ \E ok \in BOOLEAN :
       /\ IOStep(ok)
       /\ IF ok /\ PatchApplies(patchFile.patch, tgt)
          THEN LET actx == ApplyContext(target, output, inplace)
               IN \E r \in ApplyPatchResults(actx, patchFile.patch, tgt) :
                    /\ IF actx.OutputPath = actx.TargetPath
                       THEN tgt' = r.tree /\ UNCHANGED out
                       ELSE out' = r.tree /\ UNCHANGED tgt
                    /\ IF r.ok THEN Goto("apply.report") ELSE ReturnErr
          ELSE UNCHANGED <<tgt, out>> /\ ReturnErr
  /\ UNCHANGED <<applyIdle, target, output>>

\* The closing report, and return nil.
ApplyReturn ==
  /\ Running /\ pc = "apply.report"
  /\ ReturnNil("apply.done")
  /\ UNCHANGED <<applyIdle, tgt, out, target, output, steps, failedAt>>

\* The patch on disk was made by a diff of the target tree tgt and a source src.
InitApply ==
  /\ pc = "apply.check" /\ ret = "running"
  /\ targetKind = "dir" /\ sourceNull = FALSE /\ verifyFlag = FALSE
  /\ tgt \in SmallTrees
  /\ src \in SmallTrees
  /\ targetPath \in Paths /\ outputPath \in Paths /\ inplace \in BOOLEAN
  /\ target = <<>> /\ output = <<>>
  /\ targetContainer = <<>> /\ targetSignature = <<>> /\ sourceContainer = <<>>
  /\ patchFile = [state |-> "written",
                  patch |-> WritePatch(DiffContext(Container(tgt),
                                                   ComputeSignature(Container(tgt), tgt),
                                                   Container(src), src)).patch]
  /\ sigFile = [state |-> "absent", stream |-> <<>>]
  /\ stats = NoStats
  /\ out = <<>>
  /\ hashes = <<>> /\ closed = FALSE /\ wire = <<>>
  /\ steps = 0 /\ failedAt = 0
  /\ deferred = <<>> /\ cleanup = <<>>

NextApply == ApplyCheck \/ ApplyOpen \/ ApplyPatch \/ ApplyReturn

SpecApply == InitApply /\ [][NextApply]_vars

\* ------------------------------------------------------------------------
\* doSign
\* ------------------------------------------------------------------------

signIdle == <<targetKind, tgt, sourceNull, src, verifyFlag, targetPath, outputPath, inplace,
              target, output, targetSignature, sourceContainer, patchFile, stats, out>>

\* A record handed to the wire: it is appended to the file when the write succeeds.
WireWrite(rec, ok) ==
  /\ wire' = Append(wire, rec)
  /\ sigFile' = IF ok THEN [sigFile EXCEPT !.stream = Append(@, rec)] ELSE sigFile

\* tlc.Walk(output, filterPaths)
SignWalk ==
  /\ Running /\ pc = "sign.walk"
  /\ \E ok \in BOOLEAN :
       /\ IOStep(ok)
       /\ IF ok THEN targetContainer' = Container(out) /\ Goto("sign.create")
                ELSE UNCHANGED targetContainer /\ ReturnErr
  /\ UNCHANGED <<signIdle, sigFile, hashes, closed, wire>>

\* os.Create(signature)
SignCreate ==
  /\ Running /\ pc = "sign.create"
  /\ \E ok \in BOOLEAN :
       /\ IOStep(ok)
       /\ IF ok THEN sigFile' = [state |-> "empty", stream |-> <<>>] /\ Goto("sign.magic")
                ELSE UNCHANGED sigFile /\ ReturnErr
  /\ UNCHANGED <<signIdle, targetContainer, hashes, closed, wire>>

\* rawSigWire.WriteMagic(pwr.SignatureMagic): the error is not looked at.
SignWriteMagic ==
  /\ Running /\ pc = "sign.magic"
  /\ \E ok \in BOOLEAN :
       /\ IOStep(ok)
       /\ WireWrite(MagicRecord, ok)
  /\ Goto("sign.header")
  /\ UNCHANGED <<signIdle, targetContainer, hashes, closed>>

\* rawSigWire.WriteMessage(&pwr.SignatureHeader{...}): the error is not looked at.
SignWriteHeader ==
  /\ Running /\ pc = "sign.header"
  /\ \E ok \in BOOLEAN :
       /\ IOStep(ok)
       /\ WireWrite(HeaderRecord, ok)
  /\ Goto("sign.compress")
  /\ UNCHANGED <<signIdle, targetContainer, hashes, closed>>

\* pwr.CompressWire(rawSigWire, compression)
SignCompressWire ==
  /\ Running /\ pc = "sign.compress"
  /\ \E ok \in BOOLEAN :
       /\ IOStep(ok)
       /\ IF ok THEN Goto("sign.container") ELSE ReturnErr
  /\ UNCHANGED <<signIdle, targetContainer, sigFile, hashes, closed, wire>>

\* The container is never written; hashing starts right away.
SignSkipContainer ==
  /\ Running /\ pc = "sign.container"
  /\ hashes' = ComputeSignature(targetContainer, out)
  /\ Goto("sign.hash")
  /\ UNCHANGED <<signIdle, targetContainer, sigFile, closed, wire, steps, failedAt>>

\* sigWire.WriteMessage(container): the error is not looked at.  The hasher
\* is then started on the container.
SignWriteContainer ==
  /\ Running /\ pc = "sign.container"
  /\ \E ok \in BOOLEAN :
       /\ IOStep(ok)
       /\ WireWrite(ContainerRecord(targetContainer), ok)
  /\ hashes' = ComputeSignature(targetContainer, out)
  /\ Goto("sign.hash")
  /\ UNCHANGED <<signIdle, targetContainer, closed>>

\* pwr.ComputeSignatureToWriter: the hasher reads the next block and yields its
\* hash to the callback, which writes it to the compressed wire.  A failed read
\* or a failed write ends the hashing with the error.
SignHashBlock ==
  /\ Running /\ pc = "sign.hash" /\ hashes # <<>>
  /\ \E readOk \in BOOLEAN :
       IF readOk
       THEN \E ok \in BOOLEAN :
              /\ IOStep(ok)
              /\ WireWrite(HashRecord(Head(hashes)), ok)
              /\ hashes' = Tail(hashes)
              /\ IF ok THEN Goto("sign.hash") ELSE ReturnErr
       ELSE /\ IOStep(FALSE)
            /\ UNCHANGED <<sigFile, wire, hashes>>
            /\ ReturnErr
  /\ UNCHANGED <<signIdle, targetContainer, closed>>

\* sigWire.Close(), once the hasher has yielded its last hash.
SignClose ==
  /\ Running /\ pc = "sign.hash" /\ hashes = <<>>
  /\ \E ok \in BOOLEAN :
       /\ IOStep(ok)
       /\ IF ok THEN closed' = TRUE /\ Goto("sign.report")
                ELSE UNCHANGED closed /\ ReturnErr
  /\ UNCHANGED <<signIdle, targetContainer, sigFile, hashes, wire>>

\* The closing report, and return nil.
SignReturn ==
  /\ Running /\ pc = "sign.report"
  /\ ReturnNil("sign.done")
  /\ UNCHANGED <<signIdle, targetContainer, sigFile, hashes, closed, wire, steps, failedAt>>

InitSign ==
  /\ pc = "sign.walk" /\ ret = "running"
  /\ out \in Trees
  /\ targetKind = "dir" /\ tgt = <<>> /\ sourceNull = FALSE /\ src = <<>>
  /\ verifyFlag = FALSE
  /\ targetPath = <<>> /\ outputPath = <<>> /\ inplace = FALSE
  /\ target = <<>> /\ output = <<>>
  /\ targetContainer = <<>> /\ targetSignature = <<>> /\ sourceContainer = <<>>
  /\ patchFile = [state |-> "absent", patch |-> EmptyPatch]
  /\ sigFile \in {[state |-> st, stream |-> <<>>] : st \in {"absent", "stale"}}
  /\ stats = NoStats
  /\ hashes = <<>> /\ closed = FALSE /\ wire = <<>>
  /\ steps = 0 /\ failedAt = 0
  /\ deferred = <<>> /\ cleanup = <<>>

NextSign ==
  \/ SignWalk \/ SignCreate \/ SignWriteMagic \/ SignWriteHeader \/ SignCompressWire
  \/ SignWriteContainer \/ SignHashBlock \/ SignClose \/ SignReturn

SpecSign == InitSign /\ [][NextSign]_vars

\* ------------------------------------------------------------------------
\* doVerify
\* ------------------------------------------------------------------------

verifyIdle == <<targetKind, tgt, sourceNull, src, verifyFlag, targetPath, outputPath,
                inplace, target, output, sourceContainer, patchFile, sigFile, stats, out,
                closed, wire>>

\* os.Open(signature); its Close is deferred.
VerifyOpen ==
  /\ Running /\ pc = "verify.open"
  /\ \E ok \in BOOLEAN :
       /\ IOStep(ok)
       /\ IF ok THEN GotoDefer("verify.read", "signatureReader.Close") ELSE ReturnErr
  /\ UNCHANGED <<verifyIdle, targetContainer, targetSignature, hashes>>

\* pwr.ReadSignature(signatureReader): refContainer and refHashes.
VerifyReadSignature ==
  /\ Running /\ pc = "verify.read"
  /\ \E ok \in BOOLEAN :
       /\ IOStep(ok)
       /\ IF ok /\ WellFormed(sigFile.stream)
          THEN /\ targetContainer' = ReadSignature(sigFile.stream).container
               /\ targetSignature' = ReadSignature(sigFile.stream).hashes
               /\ Goto("verify.hash")
          ELSE UNCHANGED <<targetContainer, targetSignature>> /\ ReturnErr
  /\ UNCHANGED <<verifyIdle, hashes>>

\* pwr.ComputeSignature(refContainer, output, ...)
VerifyComputeSignature ==
  /\ Running /\ pc = "verify.hash"
  /\ \E ok \in BOOLEAN :
       /\ IOStep(ok)
       /\ IF ok /\ Readable(targetContainer, out)
          THEN hashes' = ComputeSignature(targetContainer, out) /\ Goto("verify.compare")
          ELSE UNCHANGED hashes /\ ReturnErr
  /\ UNCHANGED <<verifyIdle, targetContainer, targetSignature>>

\* The comparison with its outcome dropped: the report follows in any case.
VerifyCompareNoDie ==
  /\ Running /\ pc = "verify.compare"
  /\ Goto("verify.report")
  /\ UNCHANGED <<verifyIdle, targetContainer, targetSignature, hashes, steps, failedAt>>

\* pwr.CompareHashes(refHashes, hashes); comm.Dief on a mismatch.
VerifyCompare ==
  /\ Running /\ pc = "verify.compare"
  /\ IF CompareHashes(targetSignature, hashes) THEN Goto("verify.report") ELSE Die
  /\ UNCHANGED <<verifyIdle, targetContainer, targetSignature, hashes, steps, failedAt>>

\* The closing report, and return nil.
VerifyReturn ==
  /\ Running /\ pc = "verify.report"
  /\ ReturnNil("verify.done")
  /\ UNCHANGED <<verifyIdle, targetContainer, targetSignature, hashes, steps, failedAt>>

\* The trees that differ from tree in exactly one byte, lengths unchanged.
OneByteFlips(tree) ==
  UNION {{[tree EXCEPT ![i][p] = b] : p \in 1..Len(tree[i]), b \in Byte} :
           i \in 1..Len(tree)} \ {tree}

\* The signature on disk is the signature of tgt; the tree to verify is tgt
\* itself or tgt with one byte changed.
InitVerify ==
  /\ pc = "verify.open" /\ ret = "running"
  /\ tgt \in Trees
  /\ out \in {tgt} \cup OneByteFlips(tgt)
  /\ targetKind = "dir" /\ sourceNull = FALSE /\ src = <<>> /\ verifyFlag = FALSE
  /\ targetPath = <<>> /\ outputPath = <<>> /\ inplace = FALSE
  /\ target = <<>> /\ output = <<>>
  /\ targetContainer = <<>> /\ targetSignature = <<>> /\ sourceContainer = <<>>
  /\ patchFile = [state |-> "absent", patch |-> EmptyPatch]
  /\ sigFile = [state |-> "written",
                stream |-> EncodeSignature(Container(tgt),
                                           ComputeSignature(Container(tgt), tgt))]
  /\ stats = NoStats
  /\ hashes = <<>> /\ closed = FALSE /\ wire = <<>>
  /\ steps = 0 /\ failedAt = 0
  /\ deferred = <<>> /\ cleanup = <<>>

NextVerify ==
  \/ VerifyOpen \/ VerifyReadSignature \/ VerifyComputeSignature
  \/ VerifyCompare \/ VerifyReturn

SpecVerify == InitVerify /\ [][NextVerify]_vars

\* ------------------------------------------------------------------------
\* Claims
\* ------------------------------------------------------------------------

PatchOps == patchFile.patch.ops

HasOp(type) ==
  \E i \in 1..Len(PatchOps) : \E k \in 1..Len(PatchOps[i]) : PatchOps[i][k].type = type

\* C1: round trip.  Once diff has written the patch, the patch applies to the
\* target tree and the output has, file by file, exactly the bytes and the length
\* of the source tree; and the tree that diff's own apply step wrote into
\* tmpDir is the source tree, until the return removes it.
C1_RoundTrip ==
  /\ patchFile.state = "written" =>
       /\ PatchApplies(patchFile.patch, tgt)
       /\ ApplyToFresh(patchFile.patch, tgt) = src
  /\ pc \in {"diff.verify", "diff.report"} /\ verifyFlag => out = src

\* A diff of two different trees was applied and verified; the patch moves a
\* block from another file and carries fresh bytes too.
C1_Witness ==
  /\ pc = "diff.report" /\ ret = "running" /\ failedAt = 0
  /\ verifyFlag /\ targetKind = "dir"
  /\ out = src /\ src # tgt
  /\ stats.ReusedBytes > 0 /\ stats.FreshBytes > 0
  /\ \E i \in 1..Len(PatchOps) : \E k \in 1..Len(PatchOps[i]) :
       PatchOps[i][k].type = "BlockCopy" /\ PatchOps[i][k].fileIndex # i

\* The bytes of source file i that operation k of its list stands for.
RECURSIVE OpStart(_, _)
OpStart(ops, k) == IF k <= 1 THEN 0 ELSE OpStart(ops, k - 1) + ops[k - 1].length

SourceRange(i, k) ==
  SubSeq(src[i], OpStart(PatchOps[i], k) + 1, OpStart(PatchOps[i], k) + PatchOps[i][k].length)

\* C4: weak-hash collision safety.  Every BlockCopy of the patch refers to a
\* block of the target signature whose strong hash is the strong hash of the
\* source bytes the BlockCopy stands for.
C4_StrongHashConfirmed ==
  patchFile.state = "written" =>
    \A i \in 1..Len(PatchOps) : \A k \in 1..Len(PatchOps[i]) :
      PatchOps[i][k].type = "BlockCopy" =>
        \E j \in 1..Len(targetSignature) :
          /\ targetSignature[j].fileIndex = PatchOps[i][k].fileIndex
          /\ (targetSignature[j].blockIndex - 1) * BlockSize = PatchOps[i][k].offset
          /\ targetSignature[j].strong = StrongHash(SourceRange(i, k))

\* The scan met a window that shares its weak hash with a target block of another
\* strong hash, and the patch has a BlockCopy.
C4_Witness ==
  /\ patchFile.state = "written" /\ HasOp("BlockCopy")
  /\ \E i \in 1..Len(src) : \E j \in 1..Len(targetSignature) :
       /\ src[i] # <<>>
       /\ targetSignature[j].weak = WeakHash(Window(src[i], 1))
       /\ targetSignature[j].strong # StrongHash(Window(src[i], 1))

\* C5: null trees.  With target "/dev/null" the patch has Literal operations
\* only, reuses no byte and reproduces the source from nothing; with source
\* "/dev/null" the patch has no operation list and reproduces the empty tree.
C5_NullTrees ==
  patchFile.state = "written" =>
    /\ targetKind = "null" =>
         /\ ~HasOp("BlockCopy")
         /\ stats.ReusedBytes = 0
         /\ PatchApplies(patchFile.patch, <<>>)
         /\ ApplyToFresh(patchFile.patch, <<>>) = src
    /\ sourceNull =>
         /\ patchFile.patch = EmptyPatch
         /\ ApplyToFresh(patchFile.patch, tgt) = <<>>

\* A diff of the null tree against a source of two files completed.
C5_Witness ==
  /\ ret = "nil" /\ pc = "diff.done" /\ targetKind = "null" /\ ~sourceNull
  /\ Len(src) = 2 /\ HasOp("Literal") /\ stats.FreshBytes >= 2

\* C6: stats accounting.  When diff returns nil, FreshBytes + ReusedBytes is the
\* size of the source container, and the operations of every source file count
\* each of its bytes once.
C6_StatsAccounting ==
  ret = "nil" /\ pc = "diff.done" =>
    /\ stats.FreshBytes + stats.ReusedBytes = ContainerSize(sourceContainer)
    /\ sourceContainer = Container(src)
    /\ Len(PatchOps) = Len(src)
    /\ \A i \in 1..Len(src) :
         CountBytes(PatchOps[i], "BlockCopy") + CountBytes(PatchOps[i], "Literal") = Len(src[i])

\* A diff completed with reused and with fresh bytes.
C6_Witness ==
  /\ ret = "nil" /\ pc = "diff.done"
  /\ stats.ReusedBytes >= BlockSize /\ stats.FreshBytes > 0

Untouched(file) == file.state \in {"absent", "stale"}

BeforeCreate ==
  {"diff.target", "diff.walkTarget", "diff.hashTarget", "diff.openSig", "diff.readSig",
   "diff.closeSig", "diff.source", "diff.createPatch"}

\* C10: diff creates its outputs only after both inputs were acquired, and the
\* patch file before the ".sig" file.  While doDiff is at, or has failed at, a
\* step up to the creation of the patch file, neither file was created or
\* truncated; the ".sig" file is never created before the patch file; and a
\* failed creation of the ".sig" file leaves the empty patch file behind.
C10_OutputsAfterInputs ==
  /\ pc \in BeforeCreate => Untouched(patchFile) /\ Untouched(sigFile)
  /\ ~Untouched(sigFile) => ~Untouched(patchFile)
  /\ pc = "diff.createSig" => patchFile.state = "empty" /\ Untouched(sigFile)

\* The creation of the ".sig" file failed after the patch file was created.
C10_Witness ==
  /\ pc = "diff.createSig" /\ ret = "err"
  /\ patchFile.state = "empty" /\ sigFile.state = "stale"
  /\ targetKind = "sig" /\ ~sourceNull

\* C2: apply refuses in-place patching without authorization.  From a state in
\* which output equals target after cleaning and inplace is false, the only step
\* is the refusal: the process dies at the check, no I/O step is performed (the
\* patch is not opened, ApplyPatch is not called) and no tree is written.
C2_RefusesInPlace ==
  [][(Clean(IF outputPath = <<>> THEN targetPath ELSE outputPath) = Clean(targetPath)
       /\ ~inplace) =>
       /\ ret' = "die" /\ pc' = "apply.check"
       /\ steps' = 0 /\ tgt' = tgt /\ out' = out]_vars

\* Apply died at the check for two paths that differ as written.
C2_Witness ==
  /\ ret = "die" /\ pc = "apply.check" /\ ~inplace
  /\ outputPath # <<>> /\ outputPath # targetPath
  /\ tgt # src

\* The block, in signature order, that holds byte p of file i.
FlatBlock(tree, i, p) ==
  SumSizes([j \in 1..(i - 1) |-> NumBlocks(Len(tree[j]))]) + ((p - 1) \div BlockSize) + 1

FlippedBlocks ==
  {FlatBlock(tgt, i, p) : i \in {j \in 1..Len(tgt) : out[j] # tgt[j]},
                          p \in {q \in 1..MaxFileLen :
                                   \E j \in 1..Len(tgt) : q <= Len(tgt[j]) /\ out[j][q] # tgt[j][q]}}

\* C3: verify consistency.  Once the hashes are recomputed: for the unmodified
\* tree no block mismatches and verify does not die; for a tree with one byte
\* changed exactly one block mismatches, the one that holds the byte, and verify
\* does not get past the comparison.  Verify returns nil for the unmodified
\* tree only.
C3_VerifyConsistency ==
  /\ pc \in {"verify.compare", "verify.report", "verify.done"} =>
       /\ out = tgt => Mismatches(targetSignature, hashes) = {} /\ ret # "die"
       /\ out # tgt => /\ Mismatches(targetSignature, hashes) = FlippedBlocks
                       /\ Cardinality(FlippedBlocks) = 1
                       /\ pc = "verify.compare"
  /\ ret = "nil" => out = tgt

\* Verify died on a tree whose changed byte lies in the second block of its
\* second file.
C3_Witness ==
  /\ ret = "die" /\ pc = "verify.compare"
  /\ Len(tgt) = 2 /\ out[1] = tgt[1] /\ Len(tgt[2]) > BlockSize
  /\ out[2][Len(tgt[2])] # tgt[2][Len(tgt[2])]

\* The whole signature stream of the tree being signed.
ExpectedStream == EncodeSignature(Container(out), ComputeSignature(Container(out), out))

IsPrefix(a, b) == Len(a) <= Len(b) /\ SubSeq(b, 1, Len(a)) = a

\* C9: framing order of sign.  The records handed to the wire are at every
\* moment a prefix of magic, header, container, block hashes in hasher order;
\* the wire is closed only when all of them were handed over, so nothing is
\* written after the close; and a run that returns nil has closed the wire.
C9_FramingOrder ==
  /\ IsPrefix(wire, ExpectedStream)
  /\ closed => wire = ExpectedStream
  /\ ret = "nil" => closed

\* Sign returned nil for a tree of two files with three blocks.
C9_Witness ==
  /\ ret = "nil" /\ pc = "sign.done" /\ closed
  /\ Len(out) = 2 /\ Len(wire) >= 6

\* C8: every I/O failure is fatal.  Once an I/O step has failed, the command
\* has returned the error (or died) at that step and no later step is performed.
C8_IOFailureIsFatal ==
  failedAt # 0 => steps = failedAt /\ ret \in {"err", "die"}

====
